---- MODULE Spec2Model ----
(***************************************************************************)
(* The Observatory: discovery engine.                                      *)
(*                                                                         *)
(*   knowledge graph resolver  (knowledgeGraph.ts lines 1-205)             *)
(*   persistent state store    (knowledgeGraph.ts lines 207-433)           *)
(*   event bus                 (knowledgeGraph.ts lines 435-468)           *)
(*   loop timer                (loop.ts)                                   *)
(*   deep game portal          (part_002)                                  *)
(*                                                                         *)
(* The program is single threaded and every call is synchronous, so each   *)
(* exported operation is one action.  What an operation does on the way    *)
(* (storage writes, emissions, handler invocations, nested calls made by   *)
(* handlers) is computed by the operators below on a configuration record  *)
(* and recorded, in order, in the variable trace.                          *)
(***************************************************************************)
EXTENDS Integers, Sequences, FiniteSets, TLC

VARIABLES
    state,        \* the store's in-memory DiscoveryState
    storage,      \* localStorage item under STORAGE_KEY: NoItem or a string
    storageOK,    \* FALSE while localStorage access throws
    listeners,    \* window's event listener list, in registration order
    nextReg,      \* identity of the next wrapper closure listen() creates
    unsubscribed, \* registrations whose unsubscribe function has been called
    trace,        \* effects of the last operation, in program order
    ret,          \* value returned by the last operation
    thrown,       \* TRUE when the last operation ended by an exception
    lastOp,       \* the last operation and its arguments
    ops,          \* number of operations performed so far
    clock,        \* the wall clock (Date.now(), new Date())
    mig,          \* migrate calls: the record given, the result, and the
                  \* result of migrating that result
    graph,        \* node set the resolver queries run on
    qDisc,        \* discoveries array handed to the resolver
    qUnlocked,    \* last isUnlocked call: arguments and result
    qHintable,    \* last getHintableNodes call: argument and result (ids)
    announced,    \* ids of the discovery events dispatched since the store
                  \* was last reset, in order (what a subscriber that logs
                  \* them holds)
    loop,         \* loop.ts: timerId, onLoop, and the intervals scheduled
    game          \* the deep game portal component's variables

pageVars == <<loop, game>>
engineVars == <<state, storage, storageOK, listeners, nextReg, unsubscribed,
                trace, ret, thrown, lastOp, ops, clock, mig, announced>>
storeVars == <<engineVars, pageVars>>
queryVars == <<graph, qDisc, qUnlocked, qHintable>>
vars == <<state, storage, storageOK, listeners, nextReg, unsubscribed,
          trace, ret, thrown, lastOp, ops, clock, mig, graph, qDisc, qUnlocked,
          qHintable, announced, loop, game>>

(***************************************************************************)
(* Bounds of the model.                                                    *)
(***************************************************************************)
MaxOps == 4         \* operations explored per run
MaxClicks == 2      \* clickStar is explored up to this totalClickedStars
MaxLoops == 2       \* incrementLoop is explored up to this loopCount
MaxVisits == 2      \* init is explored up to this visitCount
MaxRegs == 3        \* listen() calls explored per run
MaxQueryLen == 3    \* length of the discoveries array given to the resolver
MaxClock == 1       \* the clock is explored up to this reading
MaxTimers == 3      \* setInterval calls explored per run

(***************************************************************************)
(* Array helpers (Array.prototype.includes / every / some / filter).       *)
(***************************************************************************)
Range(s) == {s[i] : i \in 1..Len(s)}

Includes(arr, x) == \E i \in 1..Len(arr) : arr[i] = x

RECURSIVE FilterSeq(_, _)
FilterSeq(s, keep) ==
    IF s = <<>> THEN <<>>
    ELSE IF Head(s) \in keep
         THEN <<Head(s)>> \o FilterSeq(Tail(s), keep)
         ELSE FilterSeq(Tail(s), keep)

NoDuplicates(s) == \A i, j \in 1..Len(s) : s[i] = s[j] => i = j

IsPrefix(s, t) == Len(s) <= Len(t) /\ SubSeq(t, 1, Len(s)) = s

(***************************************************************************)
(* Knowledge graph.                                                        *)
(***************************************************************************)
\* a node whose requires and unlocks lists have changed places
NodeEdgesSwapped(id, category, requires, unlocks) ==
    [id |-> id, category |-> category, requires |-> unlocks,
     unlocks |-> requires]

Node(id, category, requires, unlocks) ==
    [id |-> id, category |-> category, requires |-> requires,
     unlocks |-> unlocks]

graphData ==
    << Node("star:first-click", "star", <<>>, <<"star:pattern-hint">>),
       Node("star:pattern-hint", "star", <<"star:first-click">>, <<>>),
       Node("constellation:orion", "constellation", <<"star:first-click">>,
            <<"gate:orion-story">>),
       Node("constellation:cassiopeia", "constellation",
            <<"star:first-click">>, <<"gate:cassiopeia-story">>),
       Node("constellation:lyra", "constellation", <<"star:first-click">>,
            <<"gate:lyra-story">>),
       Node("game:star-catcher", "game", <<>>, <<"gate:game-stories">>),
       Node("game:signal-decoder", "game", <<>>, <<"gate:game-stories">>),
       Node("game:gravity-hop", "game", <<>>, <<"gate:game-stories">>),
       Node("game:nebula-painter", "game", <<>>, <<"gate:game-stories">>),
       Node("terminal:first-command", "terminal", <<>>,
            <<"gate:terminal-stories">>),
       Node("loop:first-reset", "loop", <<>>, <<"gate:loop-story">>),
       Node("visit:returning", "visit", <<>>, <<"gate:returning-content">>),
       Node("meta:deep-game", "meta",
            <<"star:first-click", "terminal:first-command",
              "game:star-catcher">>, <<"game:deep-complete">>),
       Node("game:deep-complete", "game", <<"meta:deep-game">>, <<>>) >>

\* The three-node graph of the unlock/hint scenarios: A, B(A), C(A,B).
abcGraph ==
    << Node("A", "meta", <<>>, <<>>),
       Node("B", "meta", <<"A">>, <<>>),
       Node("C", "meta", <<"A", "B">>, <<>>) >>

NotFound == [id |-> "<undefined>", category |-> "", requires |-> <<>>,
             unlocks |-> <<>>]

NodeIds(g) == {g[i].id : i \in 1..Len(g)}

\* graphData.nodes.find(n => n.id === id): first match, or undefined
getNode(g, id) ==
    IF \E i \in 1..Len(g) : g[i].id = id
    THEN g[CHOOSE i \in 1..Len(g) :
               g[i].id = id /\ \A j \in 1..(i - 1) : g[j].id # id]
    ELSE NotFound

\* isUnlocked with `some` in place of `every`
isUnlockedSome(g, nodeId, discoveries) ==
    LET node == getNode(g, nodeId) IN
    IF node = NotFound THEN FALSE
    ELSE Len(node.requires) = 0
         \/ \E k \in 1..Len(node.requires) :
                Includes(discoveries, node.requires[k])

isUnlocked(g, nodeId, discoveries) ==
    LET node == getNode(g, nodeId) IN
    IF node = NotFound THEN FALSE
    ELSE \A k \in 1..Len(node.requires) :
             Includes(discoveries, node.requires[k])

\* the hint filter with `every` in place of `some`
HintFilterEvery(n, discoveries) ==
    IF Includes(discoveries, n.id) THEN FALSE
    ELSE \A k \in 1..Len(n.requires) : Includes(discoveries, n.requires[k])

\* the hint filter without `n.requires.length === 0 ||`
HintFilterSomeOnly(n, discoveries) ==
    IF Includes(discoveries, n.id) THEN FALSE
    ELSE \E k \in 1..Len(n.requires) : Includes(discoveries, n.requires[k])

HintFilter(n, discoveries) ==
    IF Includes(discoveries, n.id) THEN FALSE
    ELSE Len(n.requires) = 0
         \/ \E k \in 1..Len(n.requires) : Includes(discoveries, n.requires[k])

RECURSIVE getHintableFrom(_, _, _)
getHintableFrom(g, i, discoveries) ==
    IF i > Len(g) THEN <<>>
    ELSE IF HintFilter(g[i], discoveries)
         THEN <<g[i]>> \o getHintableFrom(g, i + 1, discoveries)
         ELSE getHintableFrom(g, i + 1, discoveries)

getHintableNodes(g, discoveries) == getHintableFrom(g, 1, discoveries)

\* Math.round(x) for x >= 0 given as the fraction num/den: floor(x + 1/2)
MathRound(num, den) == (2 * num + den) \div (2 * den)

getProgress(g, discoveries) == MathRound(Len(discoveries) * 100, Len(g))

(***************************************************************************)
(* State store: schema and persistence.                                    *)
(*                                                                         *)
(* What localStorage holds is text.  A text that parses is modelled by the *)
(* JSON object it denotes, each field value carrying its JavaScript type,  *)
(* which is what migrate() tests; the in-memory state holds plain values.  *)
(***************************************************************************)
STORAGE_KEY == "observatory:state"
SCHEMA_VERSION == 1

\* values with their JavaScript type (typeof, Array.isArray)
Void == [type |-> "undefined", value |-> 0]
Bool(b) == [type |-> "boolean", value |-> b]
Num(n) == [type |-> "number", value |-> n]
Str(x) == [type |-> "string", value |-> x]
Arr(a) == [type |-> "array", value |-> a]
Fun(reg) == [type |-> "function", value |-> reg]

ArrayFields ==
    {"discoveries", "constellations", "gamesCompleted", "terminalCommands"}

SchemaFields ==
    ArrayFields \cup
    {"version", "visitCount", "firstVisitDate", "lastVisitDate",
     "sessionStart", "loopCount", "audioEnabled", "totalClickedStars"}

\* interface DiscoveryState: the declared type of each field
SchemaType(f) ==
    CASE f \in ArrayFields -> "array"
      [] f \in {"firstVisitDate", "lastVisitDate"} -> "string"
      [] f = "audioEnabled" -> "boolean"
      [] OTHER -> "number"

\* an object reference handed to a caller, with the parts of it that are the
\* store's own objects: the state object itself ("this") and its arrays
Obj(o) ==
    [type |-> "object", value |-> o, shares |-> {"this"} \cup ArrayFields]

\* { ...o }: a new object whose fields hold the same values, so the same
\* array objects
Spread(o) == [type |-> "object", value |-> o, shares |-> ArrayFields]

\* new Date().toISOString() at clock reading t
toISOString(t) ==
    <<"2025-01-01T00:00:00.000Z", "2025-01-01T00:00:00.001Z",
      "2025-01-01T00:00:00.002Z", "2025-01-01T00:00:00.003Z",
      "2025-01-01T00:00:00.004Z">>[t + 1]

createDefaultState ==
    [version |-> SCHEMA_VERSION,
     discoveries |-> <<>>,
     constellations |-> <<>>,
     gamesCompleted |-> <<>>,
     terminalCommands |-> <<>>,
     visitCount |-> 0,
     firstVisitDate |-> toISOString(clock),
     lastVisitDate |-> toISOString(clock),
     sessionStart |-> clock,
     loopCount |-> 0,
     audioEnabled |-> FALSE,
     totalClickedStars |-> 0]

\* localStorage holds no item under STORAGE_KEY, or one string
NoItem == <<>>

\* a string that is not JSON
Unparsable == [syntax |-> "invalid"]

\* JSON.stringify(state): the object's own fields, by name, each value
\* written in the syntax of its type
JSONstringify(s) ==
    [syntax |-> "json",
     doc |-> [f \in DOMAIN s |-> [type |-> SchemaType(f), value |-> s[f]]]]

\* a record with the fields whose value is not undefined
Record(version, discoveries, visitCount, firstVisitDate) ==
    LET all == [version |-> version, discoveries |-> discoveries,
                visitCount |-> visitCount, firstVisitDate |-> firstVisitDate]
    IN [f \in {g \in DOMAIN all : all[g].type # "undefined"} |-> all[f]]

\* JSON.parse(text) of a text that parses: the object the text denotes
JSONparse(text) == text.doc

\* `parsed as unknown as DiscoveryState`: the parsed object, unchecked
AsState(parsed) == [f \in DOMAIN parsed |-> parsed[f].value]

\* !v
Falsy(v) ==
    CASE v.type = "undefined" -> TRUE
      [] v.type = "number" -> v.value = 0
      [] v.type = "string" -> v.value = ""
      [] v.type = "boolean" -> ~v.value
      [] OTHER -> FALSE

\* v < 1, the operand converted to a number (a string that is not a numeral
\* converts to NaN, and NaN < 1 is false)
LessThanOne(v) ==
    CASE v.type = "number" -> v.value < 1
      [] v.type = "string" -> v.value \in {"", "0"}
      [] v.type = "boolean" -> ~v.value
      [] OTHER -> FALSE

\* raw[f], undefined when raw has no field f
Field(raw, f) == IF f \in DOMAIN raw THEN raw[f] ELSE Void

\* migrate that takes firstVisitDate from the defaults
migrateDropsFirstVisit(raw) ==
    LET base == createDefaultState
        old == Falsy(Field(raw, "version"))
                   \/ LessThanOne(Field(raw, "version"))
        s1 == IF old /\ Field(raw, "discoveries").type = "array"
              THEN [base EXCEPT !.discoveries = raw.discoveries.value]
              ELSE base
        s2 == IF old /\ Field(raw, "visitCount").type = "number"
              THEN [s1 EXCEPT !.visitCount = raw.visitCount.value]
              ELSE s1
    IN [s2 EXCEPT !.version = SCHEMA_VERSION]

\* Version 0 (no version field) -> version 1
migrate(raw) ==
    LET base == createDefaultState
        old == Falsy(Field(raw, "version"))
                   \/ LessThanOne(Field(raw, "version"))
        s1 == IF old /\ Field(raw, "discoveries").type = "array"
              THEN [base EXCEPT !.discoveries = raw.discoveries.value]
              ELSE base
        s2 == IF old /\ Field(raw, "visitCount").type = "number"
              THEN [s1 EXCEPT !.visitCount = raw.visitCount.value]
              ELSE s1
        s3 == IF old /\ Field(raw, "firstVisitDate").type = "string"
              THEN [s2 EXCEPT !.firstVisitDate = raw.firstVisitDate.value]
              ELSE s2
    IN [s3 EXCEPT !.version = SCHEMA_VERSION]

(***************************************************************************)
(* Configurations.  An operation is evaluated on a configuration: the      *)
(* program's variables plus the call's bookkeeping (the trace so far, the  *)
(* pending exception, the nesting depth of dispatchEvent).                 *)
(***************************************************************************)
\* no limit on the setItem calls that succeed
Unlimited == -1

\* quota is the number of setItem calls of the operation that still
\* succeed before setItem starts to throw (QuotaExceededError)
Config ==
    [state |-> state, storage |-> storage, storageOK |-> storageOK,
     listeners |-> listeners, nextReg |-> nextReg,
     unsubscribed |-> unsubscribed,
     trace |-> <<>>, ret |-> Void, exc |-> FALSE,
     nextEmit |-> 1, depth |-> 0, quota |-> Unlimited]

NoDetail == [none |-> TRUE]

\* state.discoveries, as the trace shows it (empty when the field is absent)
Discoveries(s) == IF "discoveries" \in DOMAIN s THEN s.discoveries ELSE <<>>

\* the item under STORAGE_KEY is the serialization of the in-memory state
Synced(c) == c.storage = <<JSONstringify(c.state)>>

Entry(c, kind, emitId, event, reg, detail) ==
    [kind |-> kind, emit |-> emitId, event |-> event, reg |-> reg,
     depth |-> c.depth, detail |-> detail, store |-> Discoveries(c.state),
     synced |-> Synced(c), regs |-> <<>>]

Log(c, e) == [c EXCEPT !.trace = Append(@, e)]

\* return v; (skipped when an exception is propagating)
Return(c, v) == IF c.exc THEN c ELSE [c EXCEPT !.ret = v]

\* obj[f] = v, which creates the field when the object has none
Assign(obj, f, v) ==
    [g \in DOMAIN obj \cup {f} |-> IF g = f THEN v ELSE obj[g]]

\* try { localStorage.setItem(KEY, JSON.stringify(state)) } catch {}
save(c) ==
    IF c.exc THEN c
    ELSE IF c.storageOK /\ c.quota # 0
         THEN Log([c EXCEPT !.storage = <<JSONstringify(c.state)>>,
                            !.quota = IF @ > 0 THEN @ - 1 ELSE @],
                  Entry(c, "save", 0, "", 0,
                        [ok |-> TRUE, value |-> c.state]))
         ELSE Log(c, Entry(c, "save", 0, "", 0,
                           [ok |-> FALSE, value |-> c.state]))

\* load whose catch block returns a bare record, not the default state
loadUnparsed(c) ==
    IF ~c.storageOK THEN createDefaultState
    ELSE IF c.storage = NoItem THEN createDefaultState
    ELSE IF c.storage[1].syntax # "json"
         THEN [version |-> SCHEMA_VERSION, visitCount |-> 0]
    ELSE LET parsed == JSONparse(c.storage[1]) IN
         IF /\ Field(parsed, "version").type = "number"
            /\ Field(parsed, "version").value = SCHEMA_VERSION
         THEN AsState(parsed)
         ELSE migrate(parsed)

\* the DiscoveryState load() returns
load(c) ==
    IF ~c.storageOK THEN createDefaultState            \* getItem throws
    ELSE IF c.storage = NoItem THEN createDefaultState \* !raw
    ELSE IF c.storage[1].syntax # "json"
         THEN createDefaultState                       \* JSON.parse throws
    ELSE LET parsed == JSONparse(c.storage[1]) IN
         IF /\ Field(parsed, "version").type = "number"
            /\ Field(parsed, "version").value = SCHEMA_VERSION
         THEN AsState(parsed)
         ELSE migrate(parsed)

(***************************************************************************)
(* Event bus on window.                                                    *)
(*                                                                         *)
(* listen() wraps the handler in a fresh closure and adds it to window's   *)
(* listener list; emit() is window.dispatchEvent, which walks a copy of    *)
(* the list taken when the dispatch starts, skips listeners removed in     *)
(* the meantime, and reports (does not rethrow) what a listener throws.    *)
(***************************************************************************)
EvDiscovery == "observatory:discovery"
EvStateChange == "observatory:state-change"
EvConstellation == "observatory:constellation-complete"
EvGameComplete == "observatory:game-complete"
EvTerminal == "observatory:terminal-command"
EvVisit == "observatory:visit"
EvTimeChange == "observatory:time-change"
EvLoopReset == "observatory:loop-reset"
EvAudioToggle == "observatory:audio-toggle"

\* Handler functions subscribers pass to listen(), and what each does.
\*   redraw     reads the store and repaints         (no store call)
\*   syncState  takes the payload's discoveries      (no store call)
\*   onTime     re-checks night mode                 (no store call)
\*   faulty     throws
\*   chain      records a further discovery          (nested mutation)
\*   relay      emits time-change                    (nested emit)
\*   detach     calls the unsubscribe function held in a variable it closes
\*              over (that of registration arg: its own, an earlier one, or
\*              one assigned later, and then undefined until that listen)
\*   attach     registers redraw on the discovery topic
HandlerFns ==
    {"redraw", "syncState", "onTime", "faulty", "chain", "relay", "detach",
     "attach"}

HandlerEvent(fn) ==
    CASE fn = "syncState" -> EvStateChange
      [] fn = "onTime" -> EvTimeChange
      [] OTHER -> EvDiscovery

Registration(reg, event, fn, arg) ==
    [reg |-> reg, event |-> event, fn |-> fn, arg |-> arg]

\* the registrations for event in the listener list ls, in list order
RegsFor(ls, event) ==
    LET rs == FilterSeq(ls, {l \in Range(ls) : l.event = event})
    IN [i \in 1..Len(rs) |-> rs[i].reg]

\* window.addEventListener(event, wrapper) with a fresh wrapper
listen(c, event, fn, arg) ==
    IF c.exc THEN c
    ELSE Return([c EXCEPT
                   !.listeners = Append(@, Registration(c.nextReg, event,
                                                        fn, arg)),
                   !.nextReg = @ + 1],
                Fun(c.nextReg))

\* an unsubscribe function that removes the handler function, that is
\* every registration of it on the topic
unlistenByHandler(c, reg) ==
    IF c.exc THEN c
    ELSE LET mine == {l \in Range(c.listeners) : l.reg = reg}
             same == {l \in Range(c.listeners) :
                         \E m \in mine : l.fn = m.fn /\ l.event = m.event}
         IN Return(Log([c EXCEPT
                          !.listeners = FilterSeq(@, Range(@) \ same),
                          !.unsubscribed = @ \cup {reg}],
                       Entry(c, "unlisten", 0, "", reg, NoDetail)),
                   Void)

\* the function listen() returned for registration reg:
\* window.removeEventListener(event, wrapper)
unlisten(c, reg) ==
    IF c.exc THEN c
    ELSE Return(Log([c EXCEPT
                       !.listeners =
                           FilterSeq(@, {l \in Range(@) : l.reg # reg}),
                       !.unsubscribed = @ \cup {reg}],
                    Entry(c, "unlisten", 0, "", reg, NoDetail)),
                Void)

(***************************************************************************)
(* emit, the handlers it runs, and the store operations handlers call      *)
(* back into are mutually recursive.                                       *)
(***************************************************************************)
RECURSIVE emit(_, _, _)
RECURSIVE InvokeListeners(_, _, _, _, _, _)
RECURSIVE RunHandler(_, _, _)
RECURSIVE addDiscovery(_, _, _, _)

\* the exception of a listener left to propagate out of dispatchEvent
ReportExceptionRethrow(c, emitId, event, reg) == c

\* A listener that throws: dispatchEvent reports the exception and goes on.
ReportException(c, emitId, event, reg) ==
    IF c.exc
    THEN Log([c EXCEPT !.exc = FALSE],
             Entry(c, "reported", emitId, event, reg, NoDetail))
    ELSE c

\* wrapper(e) => handler(e.detail), for the handler function l.fn
RunHandler(c, l, detail) ==
    CASE l.fn = "faulty" -> [c EXCEPT !.exc = TRUE]
      [] l.fn = "chain" ->
            addDiscovery(c, "terminal:opened", "terminal",
                         "Unlocked the terminal")
      [] l.fn = "relay" ->
            emit(c, EvTimeChange, [isNight |-> TRUE, hour |-> 22])
      [] l.fn = "detach" ->
            IF l.arg < c.nextReg THEN unlisten(c, l.arg) ELSE c
      [] l.fn = "attach" ->
            IF c.nextReg <= MaxRegs
            THEN listen(c, EvDiscovery, "redraw", 0)
            ELSE c
      [] OTHER -> c

\* a walk over the live listener list instead of the copy
InvokeListenersLive(c, ls, i, emitId, event, detail) ==
    IF i > Len(c.listeners) \/ c.exc THEN c
    ELSE IF c.listeners[i].event # event
         THEN InvokeListeners(c, ls, i + 1, emitId, event, detail)
         ELSE LET l == c.listeners[i]
                  c1 == Log(c, Entry(c, "invoke", emitId, event, l.reg,
                                     detail))
                  c2 == [RunHandler(c1, l, detail) EXCEPT !.ret = c.ret]
                  c3 == ReportException(c2, emitId, event, l.reg)
              IN InvokeListeners(c3, ls, i + 1, emitId, event, detail)

\* a walk whose cursor is shared with the dispatches its handlers start:
\* once a nested dispatch has run, the outer walk is at its end
InvokeListenersSharedCursor(c, ls, i, emitId, event, detail) ==
    IF i > Len(ls) \/ c.exc THEN c
    ELSE IF ls[i].event # event \/ ls[i] \notin Range(c.listeners)
         THEN InvokeListeners(c, ls, i + 1, emitId, event, detail)
         ELSE LET c1 == Log(c, Entry(c, "invoke", emitId, event, ls[i].reg,
                                     detail))
                  c2 == [RunHandler(c1, ls[i], detail) EXCEPT !.ret = c.ret]
                  c3 == ReportException(c2, emitId, event, ls[i].reg)
              IN IF c3.nextEmit > c.nextEmit THEN c3
                 ELSE InvokeListeners(c3, ls, i + 1, emitId, event, detail)

\* dispatchEvent's walk over the copy ls of the listener list, from index i
InvokeListeners(c, ls, i, emitId, event, detail) ==
    IF i > Len(ls) \/ c.exc THEN c
    ELSE IF ls[i].event # event \/ ls[i] \notin Range(c.listeners)
         THEN InvokeListeners(c, ls, i + 1, emitId, event, detail)
         ELSE LET c1 == Log(c, Entry(c, "invoke", emitId, event, ls[i].reg,
                                     detail))
                  c2 == [RunHandler(c1, ls[i], detail) EXCEPT !.ret = c.ret]
                  c3 == ReportException(c2, emitId, event, ls[i].reg)
              IN InvokeListeners(c3, ls, i + 1, emitId, event, detail)

\* window.dispatchEvent(new CustomEvent(event, { detail }))
emit(c, event, detail) ==
    IF c.exc THEN c
    ELSE LET emitId == c.nextEmit
             c1 == Log([c EXCEPT !.nextEmit = @ + 1],
                       [Entry(c, "emit", emitId, event, 0, detail)
                           EXCEPT !.regs = RegsFor(c.listeners, event)])
             c2 == InvokeListeners([c1 EXCEPT !.depth = @ + 1], c1.listeners,
                                   1, emitId, event, detail)
             c3 == [c2 EXCEPT !.depth = c.depth]
         IN IF c3.exc THEN c3
            ELSE Return(Log(c3, Entry(c3, "emitted", emitId, event, 0,
                                      detail)),
                        Void)

Push(arr, x) == Append(arr, x)

\* addDiscovery that persists before it looks for the id
addDiscoverySaveFirst(c, id, category, label) ==
    IF c.exc THEN c
    ELSE IF Includes(c.state.discoveries, id)
    THEN Return(save(c), Bool(FALSE))
    ELSE LET c1 == [c EXCEPT !.state.discoveries = Push(@, id)]
             c2 == save(c1)
             c3 == emit(c2, EvDiscovery,
                        [id |-> id, category |-> category, label |-> label])
             c4 == IF c3.exc THEN c3
                   ELSE emit(c3, EvStateChange,
                             [discoveries |-> c3.state.discoveries,
                              totalCount |-> Len(c3.state.discoveries)])
         IN Return(c4, Bool(TRUE))

\* addDiscovery that builds the state-change payload before the discovery
\* event is dispatched
addDiscoveryStalePayload(c, id, category, label) ==
    IF c.exc THEN c
    ELSE IF Includes(c.state.discoveries, id) THEN Return(c, Bool(FALSE))
    ELSE LET c1 == [c EXCEPT !.state.discoveries = Push(@, id)]
             c2 == save(c1)
             c3 == emit(c2, EvDiscovery,
                        [id |-> id, category |-> category, label |-> label])
             c4 == IF c3.exc THEN c3
                   ELSE emit(c3, EvStateChange,
                             [discoveries |-> c2.state.discoveries,
                              totalCount |-> Len(c2.state.discoveries)])
         IN Return(c4, Bool(TRUE))

addDiscovery(c, id, category, label) ==
    IF c.exc THEN c
    ELSE IF "discoveries" \notin DOMAIN c.state
    THEN [c EXCEPT !.exc = TRUE]      \* TypeError: undefined.includes
    ELSE IF Includes(c.state.discoveries, id) THEN Return(c, Bool(FALSE))
    ELSE LET c1 == [c EXCEPT !.state.discoveries = Push(@, id)]
             c2 == save(c1)
             c3 == emit(c2, EvDiscovery,
                        [id |-> id, category |-> category, label |-> label])
             c4 == IF c3.exc THEN c3
                   ELSE emit(c3, EvStateChange,
                             [discoveries |-> c3.state.discoveries,
                              totalCount |-> Len(c3.state.discoveries)])
         IN Return(c4, Bool(TRUE))

\* `constellation:${name}` and `Formed ${name}`
ConstellationId(name) ==
    CASE name = "orion" -> "constellation:orion"
      [] name = "lyra" -> "constellation:lyra"
      [] OTHER -> "constellation:?"

ConstellationLabel(name) ==
    CASE name = "orion" -> "Formed orion"
      [] name = "lyra" -> "Formed lyra"
      [] OTHER -> "Formed ?"

\* `game:${gameId}` and `Completed ${gameId}`
GameId(gameId) ==
    CASE gameId = "star-catcher" -> "game:star-catcher"
      [] gameId = "deep-complete" -> "game:deep-complete"
      [] OTHER -> "game:?"

GameLabel(gameId) ==
    CASE gameId = "star-catcher" -> "Completed star-catcher"
      [] gameId = "deep-complete" -> "Completed deep-complete"
      [] OTHER -> "Completed ?"

addConstellation(c, name, stars) ==
    IF c.exc THEN c
    ELSE IF Includes(c.state.constellations, name) THEN Return(c, Bool(FALSE))
    ELSE LET c1 == [c EXCEPT !.state.constellations = Push(@, name)]
             c2 == save(c1)
             c3 == emit(c2, EvConstellation, [name |-> name, stars |-> stars])
             c4 == addDiscovery(c3, ConstellationId(name), "constellation",
                                ConstellationLabel(name))
         IN Return(c4, Bool(TRUE))

addGameComplete(c, gameId, score) ==
    IF c.exc THEN c
    ELSE IF Includes(c.state.gamesCompleted, gameId) THEN Return(c, Bool(FALSE))
    ELSE LET c1 == [c EXCEPT !.state.gamesCompleted = Push(@, gameId)]
             c2 == save(c1)
             c3 == emit(c2, EvGameComplete,
                        [gameId |-> gameId, score |-> score])
             c4 == addDiscovery(c3, GameId(gameId), "game",
                                GameLabel(gameId))
         IN Return(c4, Bool(TRUE))

\* addTerminalCommand that appends the command whether it is new or not
addTerminalCommandAlways(c, command, output) ==
    IF c.exc THEN c
    ELSE LET d1 == [c EXCEPT !.state.terminalCommands = Push(@, command)]
             d2 == save(d1)
             c1 == IF Len(d2.state.terminalCommands) = 1
                   THEN addDiscovery(d2, "terminal:first-command",
                                     "terminal", "First terminal command")
                   ELSE d2
             c2 == emit(c1, EvTerminal,
                        [command |-> command, output |-> output])
         IN Return(c2, Void)

addTerminalCommand(c, command, output) ==
    IF c.exc THEN c
    ELSE LET c1 == IF ~Includes(c.state.terminalCommands, command)
                   THEN LET d1 == [c EXCEPT
                                     !.state.terminalCommands =
                                         Push(@, command)]
                            d2 == save(d1)
                        IN IF Len(d2.state.terminalCommands) = 1
                           THEN addDiscovery(d2, "terminal:first-command",
                                             "terminal",
                                             "First terminal command")
                           ELSE d2
                   ELSE c
             c2 == emit(c1, EvTerminal,
                        [command |-> command, output |-> output])
         IN Return(c2, Void)

clickStar(c) ==
    IF c.exc THEN c
    ELSE LET c1 == [c EXCEPT !.state.totalClickedStars = @ + 1]
             c2 == save(c1)
             c3 == IF c2.state.totalClickedStars = 1
                   THEN addDiscovery(c2, "star:first-click", "star",
                                     "Clicked first star")
                   ELSE c2
         IN Return(c3, Num(c3.state.totalClickedStars))

\* toggleAudio that leaves the new setting in memory only
toggleAudioUnsaved(c) ==
    IF c.exc THEN c
    ELSE LET c1 == [c EXCEPT !.state.audioEnabled = ~@]
             c3 == emit(c1, EvAudioToggle,
                        [enabled |-> c1.state.audioEnabled])
         IN Return(c3, Bool(c3.state.audioEnabled))

toggleAudio(c) ==
    IF c.exc THEN c
    ELSE LET c1 == [c EXCEPT !.state.audioEnabled = ~@]
             c2 == save(c1)
             c3 == emit(c2, EvAudioToggle,
                        [enabled |-> c2.state.audioEnabled])
         IN Return(c3, Bool(c3.state.audioEnabled))

\* incrementLoop that starts the loop over with no discoveries
incrementLoopWipe(c) ==
    IF c.exc THEN c
    ELSE LET c1 == [c EXCEPT !.state.loopCount = @ + 1,
                             !.state.discoveries = <<>>]
             c2 == save(c1)
             c3 == emit(c2, EvLoopReset, [loopCount |-> c2.state.loopCount])
             c4 == IF c3.state.loopCount = 1
                   THEN addDiscovery(c3, "loop:first-reset", "loop",
                                     "First time loop")
                   ELSE c3
         IN Return(c4, Num(c4.state.loopCount))

incrementLoop(c) ==
    IF c.exc THEN c
    ELSE LET c1 == [c EXCEPT !.state.loopCount = @ + 1]
             c2 == save(c1)
             c3 == emit(c2, EvLoopReset, [loopCount |-> c2.state.loopCount])
             c4 == IF c3.state.loopCount = 1
                   THEN addDiscovery(c3, "loop:first-reset", "loop",
                                     "First time loop")
                   ELSE c3
         IN Return(c4, Num(c4.state.loopCount))

\* init that emits the visit event before it saves
initEmitFirst(c) ==
    IF c.exc THEN c
    ELSE LET c1 == [c EXCEPT !.state = load(c)]
             c2 == [c1 EXCEPT
                      !.state =
                          Assign(Assign(Assign(@, "visitCount",
                                               @.visitCount + 1),
                                        "lastVisitDate", toISOString(clock)),
                                 "sessionStart", clock)]
             c3 == emit(c2, EvVisit,
                        [count |-> c2.state.visitCount,
                         isFirstVisit |-> (c2.state.visitCount = 1)])
             c4 == save(c3)
         IN Return(c4, Obj(c4.state))

init(c) ==
    IF c.exc THEN c
    ELSE LET c1 == [c EXCEPT !.state = load(c)]
             c2 == [c1 EXCEPT
                      !.state =
                          Assign(Assign(Assign(@, "visitCount",
                                               @.visitCount + 1),
                                        "lastVisitDate", toISOString(clock)),
                                 "sessionStart", clock)]
             c3 == save(c2)
             c4 == emit(c3, EvVisit,
                        [count |-> c3.state.visitCount,
                         isFirstVisit |-> (c3.state.visitCount = 1)])
         IN Return(c4, Obj(c4.state))

resetState(c) ==
    IF c.exc THEN c
    ELSE Return(save([c EXCEPT !.state = createDefaultState]), Void)

getState(c) == IF c.exc THEN c ELSE Return(c, Spread(c.state))

hasDiscovery(c, id) ==
    IF c.exc THEN c ELSE Return(c, Bool(Includes(c.state.discoveries, id)))

discoveryCount(c) ==
    IF c.exc THEN c ELSE Return(c, Num(Len(c.state.discoveries)))

(***************************************************************************)
(* Writes a caller makes to an object the store returned.                  *)
(***************************************************************************)
\* obj[field].push(x), obj[field].pop(), obj[field] = <empty value>
ObjectWrites ==
    { [kind |-> k, field |-> f] : k \in {"push", "pop"}, f \in ArrayFields }
        \cup { [kind |-> "assign", field |-> f] :
                  f \in {"discoveries", "visitCount"} }

\* the object (or the object with that array) after the write
Written(o, w) ==
    CASE w.kind = "push" -> [o EXCEPT ![w.field] = Append(@, "forged:id")]
      [] w.kind = "pop" ->
            [o EXCEPT ![w.field] =
                          IF @ = <<>> THEN @ ELSE SubSeq(@, 1, Len(@) - 1)]
      [] OTHER ->
            IF w.field \in ArrayFields
            THEN [o EXCEPT ![w.field] = <<>>]
            ELSE [o EXCEPT ![w.field] = 0]

\* The write w made through the reference r.  push and pop change the array
\* object, so every object holding that array; an assignment changes the
\* object r refers to.
WriteThrough(c, r, w) ==
    LET reaches == IF w.kind = "assign" THEN "this" \in r.shares
                   ELSE w.field \in r.shares
    IN [c EXCEPT !.state = IF reaches THEN Written(@, w) ELSE @,
                 !.ret = [r EXCEPT !.value = Written(@, w)]]

(***************************************************************************)
(* Callers: the arguments the components pass.                             *)
(***************************************************************************)
\* addDiscovery call sites outside the store (terminal, end scene)
DiscoveryCalls ==
    { [id |-> "terminal:opened", category |-> "terminal",
       label |-> "Unlocked the terminal"],
      [id |-> "game:deep-complete", category |-> "meta",
       label |-> "Completed the deep game"] }

ConstellationCalls == { [name |-> "orion", stars |-> <<"o1", "o2", "o3">>] }

GameCalls == { [gameId |-> "star-catcher", score |-> 10] }

TerminalCalls ==
    { [command |-> "help", output |-> "Available commands"],
      [command |-> "stars", output |-> "Total stars clicked"] }

\* What the key may hold when a page loads: records written by an earlier
\* or later version of the site (no version field, version 0, 2 or "1",
\* with known fields present or not and of the right type or not), and
\* records of the current version with fields missing.  Current-version
\* records carry visitCount, and their fields have the schema's types.
LegacyRecords ==
    { Record(v, d, n, f) :
        v \in {Void, Num(0), Num(2), Str("1")},
        d \in {Void, Arr(<<"a">>), Str("a")},
        n \in {Void, Num(1), Str("1")},
        f \in {Void, Str("2019-12-31T00:00:00.000Z"), Num(0)} }

CurrentRecords ==
    { Record(Num(SCHEMA_VERSION), d, Num(1), f) :
        d \in {Void, Arr(<<"a">>)},
        f \in {Void, Str("2019-12-31T00:00:00.000Z")} }

PersistedItems ==
    {NoItem, <<Unparsable>>}
        \cup { <<[syntax |-> "json", doc |-> r]>> :
                  r \in LegacyRecords \cup CurrentRecords }

\* Subscribers mounted before the store is used: none, or one whose
\* discovery handler records a further discovery.
StoreSubscribers ==
    { <<>>, <<Registration(1, EvDiscovery, "chain", 0)>> }

Op(name, arg, reg) == [op |-> name, arg |-> arg, reg |-> reg]

\* what load() finds under the key in configuration c
ItemKind(c) ==
    IF ~c.storageOK THEN "unreadable"
    ELSE IF c.storage = NoItem THEN "absent"
    ELSE IF c.storage[1].syntax # "json" THEN "unparsable"
    ELSE "json"

\* no migrate call made yet
NoMigration == [calls |-> 0]

\* an object as migrate sees it when it is passed as raw: its fields with
\* the type each value has
AsRecord(o) == [f \in DOMAIN o |-> [type |-> SchemaType(f), value |-> o[f]]]

\* the ids of the discovery events in trace t, in dispatch order
DiscoveryIds(t) ==
    LET es == SelectSeq(t, LAMBDA e : e.kind = "emit"
                                      /\ e.event = EvDiscovery)
    IN [i \in 1..Len(es) |-> es[i].detail.id]

\* the store's variables after an operation that ended in configuration r
FinishStore(r, op) ==
    /\ ops < MaxOps
    /\ ops' = ops + 1
    /\ state' = r.state
    /\ storage' = r.storage
    /\ listeners' = r.listeners
    /\ nextReg' = r.nextReg
    /\ unsubscribed' = r.unsubscribed
    /\ trace' = r.trace
    /\ ret' = r.ret
    /\ thrown' = r.exc
    /\ lastOp' = op
    /\ announced' = IF op.op = "resetState" THEN <<>>
                    ELSE announced \o DiscoveryIds(r.trace)
    /\ UNCHANGED <<storageOK, clock, mig, graph, qDisc, qUnlocked, qHintable>>

\* the variables after a store operation called by a component
Finish(r, op) == FinishStore(r, op) /\ UNCHANGED pageVars

(***************************************************************************)
(* Actions: one per exported operation.                                    *)
(***************************************************************************)
\* init(), on page load (the first call after the module is evaluated) or
\* again in the running page
DoInit ==
    /\ load(Config).visitCount < MaxVisits
    /\ Finish(init(Config),
              [op |-> "init",
               arg |-> IF lastOp.op = "load-module" THEN "on-load"
                       ELSE "again",
               reg |-> 0,
               item |-> ItemKind(Config)])

DoAddDiscovery ==
    \E a \in DiscoveryCalls :
        Finish(addDiscovery(Config, a.id, a.category, a.label),
               Op("addDiscovery", a.id, 0))

DoAddConstellation ==
    \E a \in ConstellationCalls :
        Finish(addConstellation(Config, a.name, a.stars),
               Op("addConstellation", a.name, 0))

DoAddGameComplete ==
    \E a \in GameCalls :
        Finish(addGameComplete(Config, a.gameId, a.score),
               Op("addGameComplete", a.gameId, 0))

DoAddTerminalCommand ==
    \E a \in TerminalCalls :
        Finish(addTerminalCommand(Config, a.command, a.output),
               Op("addTerminalCommand", a.command, 0))

DoClickStar ==
    /\ state.totalClickedStars < MaxClicks
    /\ Finish(clickStar(Config), Op("clickStar", "", 0))

DoToggleAudio == Finish(toggleAudio(Config), Op("toggleAudio", "", 0))

DoIncrementLoop ==
    /\ state.loopCount < MaxLoops
    /\ Finish(incrementLoop(Config), Op("incrementLoop", "", 0))

DoResetState == Finish(resetState(Config), Op("resetState", "", 0))

DoGetState == Finish(getState(Config), Op("getState", "", 0))

\* the caller of init() or getState() writes to the object it was handed
DoWriteReturned ==
    /\ lastOp.op \in {"init", "getState"}
    /\ \E w \in ObjectWrites :
          Finish(WriteThrough(Config, ret, w), Op(w.kind, w.field, 0))

\* the milestone operations, with the arguments the components pass
MilestoneCalls ==
    { [op |-> "addConstellation", arg |-> "orion"],
      [op |-> "addGameComplete", arg |-> "star-catcher"],
      [op |-> "addTerminalCommand", arg |-> "help"],
      [op |-> "clickStar", arg |-> ""],
      [op |-> "incrementLoop", arg |-> ""] }

RunMilestone(c, m) ==
    CASE m.op = "addConstellation" ->
            addConstellation(c, m.arg, <<"o1", "o2", "o3">>)
      [] m.op = "addGameComplete" -> addGameComplete(c, m.arg, 10)
      [] m.op = "addTerminalCommand" ->
            addTerminalCommand(c, m.arg, "Available commands")
      [] m.op = "clickStar" -> clickStar(c)
      [] OTHER -> incrementLoop(c)

\* a milestone operation during which setItem starts to throw: its first
\* k writes succeed, the later ones fail
DoRecordAtQuota ==
    /\ state.totalClickedStars < MaxClicks
    /\ state.loopCount < MaxLoops
    /\ \E m \in MilestoneCalls, k \in {0, 1} :
          Finish(RunMilestone([Config EXCEPT !.quota = k], m),
                 [op |-> m.op, arg |-> m.arg, reg |-> 0, quota |-> k])

\* localStorage starts or stops throwing (quota, disabled storage)
StorageFault ==
    /\ ops < MaxOps
    /\ ops' = ops + 1
    /\ storageOK' = ~storageOK
    /\ trace' = <<>>
    /\ ret' = Void
    /\ thrown' = FALSE
    /\ lastOp' = Op("storage", "", 0)
    /\ UNCHANGED <<state, storage, listeners, nextReg, unsubscribed, clock,
                   mig, graph, qDisc, qUnlocked, qHintable, announced, pageVars>>

\* the page is loaded again: the module is evaluated anew (line 292) and
\* window has no listeners; what localStorage holds stays
PageLoad ==
    /\ ops < MaxOps
    /\ ops' = ops + 1
    /\ state' = createDefaultState
    /\ listeners' = <<>>
    /\ nextReg' = 1
    /\ unsubscribed' = {}
    /\ trace' = <<>>
    /\ ret' = Void
    /\ thrown' = FALSE
    /\ lastOp' = Op("load-module", "", 0)
    /\ UNCHANGED <<storage, storageOK, clock, mig, graph, qDisc, qUnlocked,
                   qHintable, announced, pageVars>>

\* time passes
Tick ==
    /\ clock < MaxClock
    /\ clock' = clock + 1
    /\ UNCHANGED <<state, storage, storageOK, listeners, nextReg,
                   unsubscribed, trace, ret, thrown, lastOp, ops, mig, graph,
                   qDisc, qUnlocked, qHintable, announced, pageVars>>

\* migrate(raw) for the record drawn
DoMigrate ==
    /\ mig.calls = 0
    /\ mig' = [calls |-> 1, raw |-> mig.raw, at |-> clock,
               once |-> migrate(mig.raw)]
    /\ UNCHANGED <<state, storage, storageOK, listeners, nextReg,
                   unsubscribed, trace, ret, thrown, lastOp, ops, clock,
                   graph, qDisc, qUnlocked, qHintable, announced, pageVars>>

\* migrate(migrate(raw)): the result migrated again
DoMigrateAgain ==
    /\ mig.calls = 1
    /\ mig' = [calls |-> 2, raw |-> mig.raw, at |-> mig.at,
               once |-> mig.once, again |-> migrate(AsRecord(mig.once))]
    /\ UNCHANGED <<state, storage, storageOK, listeners, nextReg,
                   unsubscribed, trace, ret, thrown, lastOp, ops, clock,
                   graph, qDisc, qUnlocked, qHintable, announced, pageVars>>

DoListen ==
    /\ nextReg <= MaxRegs
    /\ \E fn \in HandlerFns, arg \in 0..MaxRegs :
        /\ (fn = "detach") = (arg # 0)
        /\ Finish(listen(Config, HandlerEvent(fn), fn, arg),
                  Op("listen", fn, nextReg))

\* calling the function a listen() call returned, also a second time
DoUnlisten ==
    \E reg \in 1..(nextReg - 1) :
        Finish(unlisten(Config, reg),
               Op("unlisten", IF reg \in unsubscribed THEN "again"
                              ELSE "first", reg))

\* TimeSensor's checkTime
DoEmitTimeChange ==
    Finish(emit(Config, EvTimeChange, [isNight |-> TRUE, hour |-> 22]),
           Op("emit", EvTimeChange, 0))

(***************************************************************************)
(* Resolver queries on a caller-supplied discoveries array.                *)
(***************************************************************************)
QueryIds(g) ==
    IF g = abcGraph THEN {"A", "B", "C", "Z"}
    ELSE {"star:first-click", "terminal:first-command", "game:star-catcher",
          "meta:deep-game", "game:deep-complete", "terminal:opened"}

Ids(nodes) == [i \in 1..Len(nodes) |-> nodes[i].id]

UnlockedCall(g, nodeId, discoveries) ==
    [nodeId |-> nodeId, discoveries |-> discoveries,
     result |-> isUnlocked(g, nodeId, discoveries)]

HintableCall(g, discoveries) ==
    [discoveries |-> discoveries,
     result |-> Ids(getHintableNodes(g, discoveries))]

QPush ==
    /\ Len(qDisc) < MaxQueryLen
    /\ \E id \in QueryIds(graph) : qDisc' = Append(qDisc, id)
    /\ UNCHANGED <<graph, qUnlocked, qHintable>>
    /\ UNCHANGED storeVars

QIsUnlocked ==
    /\ \E id \in QueryIds(graph) : qUnlocked' = UnlockedCall(graph, id, qDisc)
    /\ UNCHANGED <<graph, qDisc, qHintable>>
    /\ UNCHANGED storeVars

QGetHintableNodes ==
    /\ qHintable' = HintableCall(graph, qDisc)
    /\ UNCHANGED <<graph, qDisc, qUnlocked>>
    /\ UNCHANGED storeVars

(***************************************************************************)
(* The loop timer (loop.ts).  setInterval hands out a fresh id and keeps   *)
(* the interval scheduled until clearInterval is called with that id.      *)
(***************************************************************************)
\* timerId = null
NoTimer == 0

\* onLoop = null
NoCallback == "null"

\* the module's variables when it is evaluated; scheduled is the browser's
\* set of live intervals, nextId the id the next setInterval call returns,
\* calls the number of callback invocations made when the last period
\* elapsed
NoLoopTimer ==
    [timerId |-> NoTimer, onLoop |-> NoCallback, scheduled |-> {},
     nextId |-> 1, calls |-> 0]

startLoopTimer(l, callback) ==
    [l EXCEPT !.onLoop = callback,
              !.timerId = l.nextId,
              !.scheduled = @ \cup {l.nextId},
              !.nextId = @ + 1,
              !.calls = 0]

stopLoopTimer(l) ==
    LET l1 == IF l.timerId # NoTimer
              THEN [l EXCEPT !.scheduled = @ \ {l.timerId},
                             !.timerId = NoTimer]
              ELSE l
    IN [l1 EXCEPT !.onLoop = NoCallback, !.calls = 0]

\* the closures () => { onLoop?.(); } of n intervals run one after the
\* other, onLoop being the store's incrementLoop
RECURSIVE RunIntervals(_, _, _)
RunIntervals(c, l, n) ==
    IF n = 0 \/ l.onLoop = NoCallback THEN c
    ELSE RunIntervals(incrementLoop(c), l, n - 1)

StartLoopTimer ==
    /\ loop.nextId <= MaxTimers
    /\ loop' = startLoopTimer(loop, "incrementLoop")
    /\ UNCHANGED <<engineVars, queryVars, game>>

StopLoopTimer ==
    /\ loop' = stopLoopTimer(loop)
    /\ UNCHANGED <<engineVars, queryVars, game>>

\* LOOP_DURATION_MS pass: every scheduled interval fires once
PeriodElapses ==
    /\ loop.scheduled # {}
    /\ LET n == IF loop.onLoop = NoCallback THEN 0
                ELSE Cardinality(loop.scheduled)
       IN /\ state.loopCount + n <= MaxLoops
          /\ FinishStore(RunIntervals(Config, loop,
                                      Cardinality(loop.scheduled)),
                         Op("period", "", n))
          /\ loop' = [loop EXCEPT !.calls = n]
    /\ UNCHANGED game

(***************************************************************************)
(* The deep game portal component (part_002).  launchGame is an async      *)
(* function: pc is where its one pending invocation waits.                 *)
(***************************************************************************)
\* the component's variables before onMount has run
NotMounted ==
    [mounted |-> FALSE, canAccess |-> FALSE, isLoading |-> FALSE,
     isActive |-> FALSE, phaserGame |-> "null", pc |-> "idle"]

\* bind:this={containerEl} is in the branch rendered while isActive
containerEl(g) == IF g.isActive THEN "div" ELSE "undefined"

canAccessDeepGame(s) == Len(s.discoveries) >= 10

\* onMount
Mount ==
    /\ ~game.mounted
    /\ game' = [game EXCEPT !.mounted = TRUE,
                            !.canAccess = canAccessDeepGame(state)]
    /\ UNCHANGED <<engineVars, queryVars, loop>>

\* handleStateChange, for the state-change event of the last operation
HandleStateChange ==
    /\ game.mounted
    /\ \E i \in 1..Len(trace) :
          trace[i].kind = "emit" /\ trace[i].event = EvStateChange
    /\ game.canAccess # canAccessDeepGame(state)
    /\ game' = [game EXCEPT !.canAccess = canAccessDeepGame(state)]
    /\ UNCHANGED <<engineVars, queryVars, loop>>

\* a click on the portal button, which is rendered while canAccess and
\* not isActive, and enabled while not isLoading: launchGame up to its
\* first await
LaunchGame ==
    /\ game.mounted /\ game.canAccess
    /\ ~game.isActive /\ ~game.isLoading
    /\ game.pc = "idle"
    /\ game' = [game EXCEPT !.isLoading = TRUE, !.pc = "import"]
    /\ UNCHANGED <<engineVars, queryVars, loop>>

\* the dynamic imports resolve, or one of them rejects (catch block)
ImportsSettle ==
    /\ game.pc = "import"
    /\ \E ok \in BOOLEAN :
          game' = IF ok THEN [game EXCEPT !.pc = "frame"]
                  ELSE [game EXCEPT !.isLoading = FALSE, !.pc = "idle"]
    /\ UNCHANGED <<engineVars, queryVars, loop>>

\* the requestAnimationFrame callback resolves the promise: launchGame
\* from line 51 to its end
AnimationFrame ==
    /\ game.pc = "frame"
    /\ game' = IF containerEl(game) = "undefined"
               THEN [game EXCEPT !.pc = "idle"]
               ELSE [game EXCEPT !.isActive = TRUE, !.isLoading = FALSE,
                                 !.phaserGame = "game", !.pc = "idle"]
    /\ UNCHANGED <<engineVars, queryVars, loop>>

(***************************************************************************)
(* Specifications.                                                         *)
(***************************************************************************)
InitPage ==
    /\ announced = <<>>
    /\ loop = NoLoopTimer
    /\ game = NotMounted

InitStore ==
    /\ clock = 0
    /\ mig = NoMigration
    /\ InitPage
    /\ state = createDefaultState
    /\ storage = NoItem
    /\ storageOK = TRUE
    /\ unsubscribed = {}
    /\ trace = <<>>
    /\ ret = Void
    /\ thrown = FALSE
    /\ lastOp = Op("load-module", "", 0)
    /\ ops = 0

InitQuery ==
    /\ graph = graphData
    /\ qDisc = <<>>
    /\ qUnlocked = UnlockedCall(graphData, graphData[1].id, <<>>)
    /\ qHintable = HintableCall(graphData, <<>>)

\* The store, used by the components, with storage that may fail.
Init ==
    /\ InitStore
    /\ listeners \in StoreSubscribers
    /\ nextReg = Len(listeners) + 1
    /\ InitQuery

Next ==
    \/ DoInit
    \/ DoAddDiscovery
    \/ DoAddConstellation
    \/ DoAddGameComplete
    \/ DoAddTerminalCommand
    \/ DoClickStar
    \/ DoToggleAudio
    \/ DoIncrementLoop
    \/ DoResetState
    \/ StorageFault

Spec == Init /\ [][Next]_vars

\* The store with storage that works throughout.
NextDurable ==
    \/ DoInit
    \/ DoAddDiscovery
    \/ DoAddConstellation
    \/ DoAddGameComplete
    \/ DoAddTerminalCommand
    \/ DoClickStar
    \/ DoToggleAudio
    \/ DoIncrementLoop
    \/ DoResetState

SpecDurable == Init /\ [][NextDurable]_vars

\* The store with writes that start to fail in the middle of an operation.
NextQuota ==
    \/ DoInit
    \/ DoRecordAtQuota
    \/ DoAddConstellation

SpecQuota == Init /\ [][NextQuota]_vars

\* Callers that write to what init() and getState() return.
NextSnapshot ==
    \/ DoInit
    \/ DoAddDiscovery
    \/ DoAddConstellation
    \/ DoGetState
    \/ DoWriteReturned

SpecSnapshot == Init /\ [][NextSnapshot]_vars

\* The event bus: subscribers come and go, and emissions reach them.
InitBus ==
    /\ InitStore
    /\ listeners = <<>>
    /\ nextReg = 1
    /\ InitQuery

NextBus ==
    \/ DoListen
    \/ DoUnlisten
    \/ DoEmitTimeChange
    \/ DoAddDiscovery

SpecBus == InitBus /\ [][NextBus]_vars

\* The resolver, on the site's graph and on the three-node graph.
InitGraph ==
    /\ InitStore
    /\ listeners = <<>>
    /\ nextReg = 1
    /\ graph \in {graphData, abcGraph}
    /\ qDisc = <<>>
    /\ qUnlocked = UnlockedCall(graph, graph[1].id, <<>>)
    /\ qHintable = HintableCall(graph, <<>>)

NextGraph ==
    \/ QPush
    \/ QIsUnlocked
    \/ QGetHintableNodes

SpecGraph == InitGraph /\ [][NextGraph]_vars

\* Page loads over whatever the key holds.
InitLoad ==
    /\ clock = 0
    /\ mig = NoMigration
    /\ state = createDefaultState
    /\ InitPage
    /\ storage \in PersistedItems
    /\ storageOK = TRUE
    /\ listeners = <<>>
    /\ nextReg = 1
    /\ unsubscribed = {}
    /\ trace = <<>>
    /\ ret = Void
    /\ thrown = FALSE
    /\ lastOp = Op("load-module", "", 0)
    /\ ops = 0
    /\ InitQuery

NextLoad ==
    \/ DoInit
    \/ PageLoad
    \/ DoAddDiscovery
    \/ Tick

SpecLoad == InitLoad /\ [][NextLoad]_vars

\* migrate, on the records a key may hold.
InitMigrate ==
    /\ clock = 0
    /\ mig \in {[calls |-> 0, raw |-> r] :
                  r \in LegacyRecords \cup CurrentRecords}
    /\ InitPage
    /\ state = createDefaultState
    /\ storage = NoItem
    /\ storageOK = TRUE
    /\ listeners = <<>>
    /\ nextReg = 1
    /\ unsubscribed = {}
    /\ trace = <<>>
    /\ ret = Void
    /\ thrown = FALSE
    /\ lastOp = Op("load-module", "", 0)
    /\ ops = 0
    /\ InitQuery

NextMigrate ==
    \/ DoMigrate
    \/ DoMigrateAgain
    \/ Tick

SpecMigrate == InitMigrate /\ [][NextMigrate]_vars

\* The loop timer, started and stopped by the page.
NextLoop ==
    \/ StartLoopTimer
    \/ StopLoopTimer
    \/ PeriodElapses

SpecLoop == InitBus /\ [][NextLoop]_vars

\* The state of a visitor who is one discovery short of the deep game:
\* first star click, three constellations, four games, first command.
ExplorerState ==
    [createDefaultState EXCEPT
       !.discoveries = <<"star:first-click", "constellation:orion",
                         "constellation:cassiopeia", "constellation:lyra",
                         "game:star-catcher", "game:signal-decoder",
                         "game:gravity-hop", "game:nebula-painter",
                         "terminal:first-command">>,
       !.constellations = <<"orion", "cassiopeia", "lyra">>,
       !.gamesCompleted = <<"star-catcher", "signal-decoder", "gravity-hop",
                            "nebula-painter">>,
       !.terminalCommands = <<"help">>,
       !.totalClickedStars = 1,
       !.visitCount = 1]

\* The deep game portal on the page of such a visitor.  The continuations
\* of launchGame are promise reactions and an animation frame callback,
\* which the event loop runs once they are ready: weak fairness.
InitGame ==
    /\ clock = 0
    /\ mig = NoMigration
    /\ InitPage
    /\ state = ExplorerState
    /\ storage = <<JSONstringify(ExplorerState)>>
    /\ storageOK = TRUE
    /\ listeners = <<>>
    /\ nextReg = 1
    /\ unsubscribed = {}
    /\ trace = <<>>
    /\ ret = Void
    /\ thrown = FALSE
    /\ lastOp = Op("load-module", "", 0)
    /\ ops = 0
    /\ InitQuery

NextGame ==
    \/ Mount
    \/ HandleStateChange
    \/ LaunchGame
    \/ ImportsSettle
    \/ AnimationFrame
    \/ DoAddDiscovery
    \/ DoIncrementLoop
    \/ DoToggleAudio

SpecGame ==
    /\ InitGame
    /\ [][NextGame]_vars
    /\ WF_vars(ImportsSettle)
    /\ WF_vars(AnimationFrame)

(***************************************************************************)
(* Resolver properties (SpecGraph).                                        *)
(***************************************************************************)
RequiresOf(g, id) ==
    UNION {Range(g[i].requires) : i \in {k \in 1..Len(g) : g[k].id = id}}

\* C9: isUnlocked(nodeId, discoveries) is true exactly when nodeId is a node
\* of the graph and every id of its requires is in discoveries; an unknown
\* nodeId gives false.  On A, B(A), C(A,B): {A} unlocks B and not C, {A,B}
\* unlocks C.
C9_IsUnlockedStrictAnd ==
    LET d == Range(qUnlocked.discoveries)
        n == qUnlocked.nodeId
    IN /\ qUnlocked.result =
              (n \in NodeIds(graph) /\ RequiresOf(graph, n) \subseteq d)
       /\ n \notin NodeIds(graph) => qUnlocked.result = FALSE
       /\ (graph = abcGraph /\ d = {"A"} /\ n = "B") => qUnlocked.result
       /\ (graph = abcGraph /\ d = {"A"} /\ n = "C") => ~qUnlocked.result
       /\ (graph = abcGraph /\ d = {"A", "B"} /\ n = "C") => qUnlocked.result

C9_Witness ==
    /\ graph = abcGraph
    /\ qUnlocked.nodeId = "C"
    /\ Range(qUnlocked.discoveries) = {"A", "B"}
    /\ qUnlocked.result

\* C10: getHintableNodes(discoveries) is, in node order, the nodes that are
\* not in discoveries and whose requires is empty or meets discoveries.  On
\* A, B(A), C(A,B): {} gives A only; {A} gives B and C.
C10_HintableOr ==
    LET d == Range(qHintable.discoveries)
        hintable == {id \in NodeIds(graph) :
                        /\ id \notin d
                        /\ \/ RequiresOf(graph, id) = {}
                           \/ RequiresOf(graph, id) \cap d # {}}
    IN /\ qHintable.result = FilterSeq(Ids(graph), hintable)
       /\ (graph = abcGraph /\ d \cap {"A", "B", "C"} = {})
              => qHintable.result = <<"A">>
       /\ (graph = abcGraph /\ d \cap {"A", "B", "C"} = {"A"})
              => qHintable.result = <<"B", "C">>

C10_Witness ==
    /\ graph = abcGraph
    /\ Range(qHintable.discoveries) = {"A"}
    /\ qHintable.result = <<"B", "C">>

(***************************************************************************)
(* Store properties.                                                       *)
(***************************************************************************)
\* the top-level emissions of a trace: those made by the operation itself
\* rather than by a handler it reached
OwnEmits(t) == SelectSeq(t, LAMBDA e : e.kind = "emit" /\ e.depth = 0)

CallOf(id) == CHOOSE a \in DiscoveryCalls : a.id = id

\* C1: addDiscovery(id, ...) with id already in discoveries returns false,
\* changes no state field, writes nothing to storage and emits nothing.
C1_AddDiscoveryIdempotent ==
    [][(lastOp'.op = "addDiscovery"
        /\ Includes(state.discoveries, lastOp'.arg))
       => /\ ret'.type = "boolean" /\ ret'.value = FALSE
          /\ ~thrown'
          /\ state' = state
          /\ storage' = storage
          /\ listeners' = listeners
          /\ trace' = <<>>]_vars

C1_Witness ==
    /\ lastOp.op = "addDiscovery"
    /\ ret = Bool(FALSE)
    /\ Includes(state.discoveries, lastOp.arg)
    /\ Len(state.discoveries) >= 2
    /\ trace = <<>>

\* C2: addDiscovery(id, category, label) with a new id appends id after the
\* existing discoveries, writes the state to storage, then emits discovery
\* {id, category, label}, then state-change {discoveries, totalCount} with
\* totalCount the length of the payload's discoveries and of the store's
\* discoveries when it is emitted, and returns true.
C2_AddDiscoveryNew ==
    [][(lastOp'.op = "addDiscovery"
        /\ ~Includes(state.discoveries, lastOp'.arg))
       => LET id == lastOp'.arg
              t == trace'
              own == OwnEmits(t)
          IN /\ ret'.type = "boolean" /\ ret'.value = TRUE
             /\ ~thrown'
             /\ IsPrefix(Append(state.discoveries, id), state'.discoveries)
             /\ Len(t) >= 5
             /\ t[1].kind = "save"
             /\ t[1].detail.ok
             /\ t[1].detail.value.discoveries =
                    Append(state.discoveries, id)
             /\ t[2].kind = "emit"
             /\ Len(own) = 2
             /\ own[1] = t[2]
             /\ own[1].event = EvDiscovery
             /\ own[1].detail =
                    [id |-> id, category |-> CallOf(id).category,
                     label |-> CallOf(id).label]
             /\ own[2].event = EvStateChange
             /\ own[2].detail.discoveries = own[2].store
             /\ own[2].detail.totalCount = Len(own[2].detail.discoveries)
             /\ own[2].detail.totalCount = Len(own[2].store)
             /\ Includes(own[2].detail.discoveries, id)]_vars

\* a handler of the discovery event recorded a further discovery before the
\* state-change event went out
C2_Witness ==
    /\ lastOp = Op("addDiscovery", "game:deep-complete", 0)
    /\ ret = Bool(TRUE)
    /\ state.discoveries = <<"game:deep-complete", "terminal:opened">>
    /\ Len(OwnEmits(trace)) = 2
    /\ OwnEmits(trace)[2].detail.totalCount = 2

\* C3: no operation other than init and resetState makes discoveries
\* shorter or getProgress smaller.
C3_Monotonic ==
    [][lastOp'.op \notin {"init", "resetState"}
       => /\ Len(state'.discoveries) >= Len(state.discoveries)
          /\ getProgress(graphData, state'.discoveries)
                 >= getProgress(graphData, state.discoveries)]_vars

C3_Witness ==
    /\ lastOp.op = "addConstellation"
    /\ Len(state.discoveries) >= 3
    /\ getProgress(graphData, state.discoveries) >= 21

\* C4: an id in discoveries stays in discoveries through every operation
\* other than resetState.
C4_NeverUnset ==
    [][lastOp'.op # "resetState"
       => \A i \in 1..Len(state.discoveries) :
              Includes(state'.discoveries, state.discoveries[i])]_vars

(***************************************************************************)
(* Event bus properties (SpecBus).                                         *)
(***************************************************************************)
Where(t, kind) == {i \in 1..Len(t) : t[i].kind = kind}

\* index of the entry that closes the emission opened at index a, or 0
EndOf(t, a) ==
    LET ends == {b \in Where(t, "emitted") : t[b].emit = t[a].emit}
    IN IF ends = {} THEN 0 ELSE CHOOSE b \in ends : TRUE

\* the registrations invoked for emission e, in invocation order
InvokedRegs(t, e) ==
    LET inv == SelectSeq(t, LAMBDA x : x.kind = "invoke" /\ x.emit = e)
    IN [i \in 1..Len(inv) |-> inv[i].reg]

\* registration q was deregistered during the emission opened at index a,
\* before it had been invoked for it
Dropped(t, a, q) ==
    \E j \in Where(t, "unlisten") :
        /\ a < j /\ j < EndOf(t, a)
        /\ t[j].reg = q
        /\ ~\E k \in Where(t, "invoke") :
               a < k /\ k < j /\ t[k].emit = t[a].emit /\ t[k].reg = q

After(regs, r) ==
    {regs[i] : i \in {k \in 1..Len(regs) :
                         \E m \in 1..(k - 1) : regs[m] = r}}

Detached(t) == Where(t, "unlisten") # {}

\* C5: when a handler throws, the emission goes on to the handlers
\* registered after it on the topic (those not deregistered meanwhile),
\* returns to its caller, and the operation that emitted returns its result.
C5_EventIsolation ==
    /\ ~thrown
    /\ \A r \in Where(trace, "reported") :
         \E a \in Where(trace, "emit") :
            /\ trace[a].emit = trace[r].emit
            /\ a < r /\ r < EndOf(trace, a)
            /\ \A q \in After(trace[a].regs, trace[r].reg) :
                  \/ \E k \in Where(trace, "invoke") :
                        /\ r < k /\ k < EndOf(trace, a)
                        /\ trace[k].emit = trace[a].emit
                        /\ trace[k].reg = q
                  \/ Dropped(trace, a, q)
    /\ (lastOp.op = "addDiscovery" /\ Where(trace, "reported") # {})
           => ret = Bool(TRUE)

\* a handler threw and a handler registered after it ran
C5_Witness ==
    /\ lastOp.op = "addDiscovery"
    /\ ~thrown
    /\ ret = Bool(TRUE)
    /\ \E r \in Where(trace, "reported"), k \in Where(trace, "invoke") :
          /\ r < k
          /\ trace[k].emit = trace[r].emit
          /\ trace[k].reg # trace[r].reg

\* C6 as stated: every emission invokes exactly the registrations that were
\* on its topic when it was called, once each, in registration order, and
\* has returned by the end of the operation.
C6_EmitExactlyRegistered ==
    \A a \in Where(trace, "emit") :
        /\ EndOf(trace, a) > a
        /\ InvokedRegs(trace, trace[a].emit) = trace[a].regs

\* C6 amended: every emission invokes, once each and in registration order,
\* exactly the registrations that were on its topic when it was called and
\* were not deregistered before their turn; nothing else is invoked for it,
\* and all of it happens before the emission returns.
C6_EmitRegisteredAtTurn ==
    \A a \in Where(trace, "emit") :
        LET E == trace[a]
            b == EndOf(trace, a)
        IN /\ b > a
           /\ InvokedRegs(trace, E.emit) =
                  FilterSeq(E.regs,
                            {q \in Range(E.regs) : ~Dropped(trace, a, q)})
           /\ \A k \in Where(trace, "invoke") :
                  trace[k].emit = E.emit
                      => a < k /\ k < b /\ trace[k].event = E.event

\* an emission during which one handler was deregistered before its turn
\* and another was registered
C6_Witness ==
    \E a \in Where(trace, "emit") :
        /\ Len(trace[a].regs) >= 2
        /\ InvokedRegs(trace, trace[a].emit) # trace[a].regs
        /\ InvokedRegs(trace, trace[a].emit) # <<>>

\* C7: the function listen() returned removes its own registration and no
\* other, keeps the order of the rest, does nothing when called again, and
\* no emission invokes a registration after its function was called.
C7_UnsubscribeExact ==
    [][/\ lastOp'.op = "unlisten"
          => /\ listeners' =
                    FilterSeq(listeners,
                              {l \in Range(listeners) : l.reg # lastOp'.reg})
             /\ Len(listeners') >= Len(listeners) - 1
             /\ lastOp'.reg \in unsubscribed => listeners' = listeners
             /\ state' = state /\ storage' = storage
             /\ ~thrown'
       /\ \A k \in Where(trace', "invoke") :
              trace'[k].reg \notin unsubscribed]_vars

\* the function of registration 1 called a second time, with a second
\* registration of the same handler function still in place
C7_Witness ==
    /\ lastOp = Op("unlisten", "again", 1)
    /\ listeners = <<Registration(2, EvDiscovery, "redraw", 0)>>
    /\ unsubscribed = {1}

\* C8: when handlers call store mutations or emit (and none deregisters a
\* handler), every nested emission opens and closes inside the handler that
\* started it, the outer emission then invokes each of its remaining
\* handlers once, in registration order, and the operation returns.
C8_ReentrantDispatch ==
    ~Detached(trace) =>
        /\ ~thrown
        /\ \A a \in Where(trace, "emit") :
              LET b == EndOf(trace, a) IN
              /\ b > a
              /\ InvokedRegs(trace, trace[a].emit) = trace[a].regs
              /\ \A k \in Where(trace, "invoke") :
                     trace[k].emit = trace[a].emit => a < k /\ k < b
              /\ \A n \in Where(trace, "emit") :
                     (a < n /\ n < b)
                         => /\ EndOf(trace, n) > n
                            /\ EndOf(trace, n) < b
                            /\ \A k \in Where(trace, "invoke") :
                                   trace[k].emit = trace[a].emit
                                       => (k < n \/ k > EndOf(trace, n))

\* a nested emission finished and the outer one went on to its next handler
C8_Witness ==
    /\ ~Detached(trace)
    /\ \E n \in Where(trace, "emitted"), k \in Where(trace, "invoke") :
          /\ trace[n].depth >= 1
          /\ n < k
          /\ trace[k].depth = 1
          /\ trace[k].emit = 1

(***************************************************************************)
(* Progress (Spec).                                                        *)
(***************************************************************************)
\* C11: getProgress(discoveries) is round(100 * |discoveries /\ allNodeIds|
\* / |allNodeIds|) for every discoveries the store can hold, ids that are
\* not graph nodes included, and so lies between 0 and 100.
C11_ProgressCountsNodes ==
    LET p == getProgress(graphData, state.discoveries)
        known == Range(state.discoveries) \cap NodeIds(graphData)
    IN /\ p = MathRound(100 * Cardinality(known),
                        Cardinality(NodeIds(graphData)))
       /\ p \in 0..100

(***************************************************************************)
(* Visits (SpecLoad).                                                      *)
(***************************************************************************)
\* this step is a call of operation op
Called(op) == ops' = ops + 1 /\ lastOp'.op = op

\* the item is a current-version record whose visitCount is n
HoldsVisit(item, n) ==
    /\ item # NoItem
    /\ item[1].syntax = "json"
    /\ Field(item[1].doc, "version").type = "number"
    /\ Field(item[1].doc, "version").value = SCHEMA_VERSION
    /\ Field(item[1].doc, "visitCount").type = "number"
    /\ Field(item[1].doc, "visitCount").value = n

\* C12: init() on empty storage gives visitCount 1 and the visit event
\* {count: 1, isFirstVisit: true}; init() in a fresh page over the record
\* that call persisted gives visitCount 2 and isFirstVisit false.  The
\* payload's count is visitCount after the increment, isFirstVisit is true
\* exactly when that is 1, and the state is in storage when the event goes
\* out.
C12_VisitScenario ==
    [][Called("init")
       => LET own == OwnEmits(trace')
          IN /\ ~thrown'
             /\ Len(trace') >= 2
             /\ trace'[1].kind = "save"
             /\ trace'[1].detail.ok
             /\ trace'[1].detail.value.visitCount = state'.visitCount
             /\ Len(own) = 1
             /\ own[1] = trace'[2]
             /\ own[1].event = EvVisit
             /\ own[1].synced
             /\ own[1].detail.count = state'.visitCount
             /\ own[1].detail.isFirstVisit = (state'.visitCount = 1)
             /\ HoldsVisit(storage', state'.visitCount)
             /\ storage = NoItem
                    => /\ state'.visitCount = 1
                       /\ own[1].detail = [count |-> 1, isFirstVisit |-> TRUE]
             /\ (lastOp'.arg = "on-load" /\ HoldsVisit(storage, 1))
                    => /\ state'.visitCount = 2
                       /\ own[1].detail = [count |-> 2, isFirstVisit |-> FALSE]
         ]_vars

\* the second visit: a page load over the record the first visit persisted,
\* which kept the discovery made during the first visit
C12_Witness ==
    /\ lastOp.op = "init" /\ lastOp.arg = "on-load"
    /\ state.visitCount = 2
    /\ Discoveries(state) = <<"terminal:opened">>
    /\ state.firstVisitDate = toISOString(0)
    /\ OwnEmits(trace)[1].detail = [count |-> 2, isFirstVisit |-> FALSE]

\* C13: each init() call makes visitCount one more than the call before it
\* did, whether the storage writes in between succeeded or failed.
C13_VisitCountSteps ==
    [][Called("init") => state'.visitCount = state.visitCount + 1]_vars

(***************************************************************************)
(* Snapshots (SpecSnapshot).                                               *)
(***************************************************************************)
ProbeIds == {"forged:id", "terminal:opened", "game:deep-complete"}

\* what hasDiscovery, discoveryCount and getState answer in configuration c
Observe(c) ==
    [hasDiscovery |-> {id \in ProbeIds : hasDiscovery(c, id).ret.value},
     discoveryCount |-> discoveryCount(c).ret.value,
     getState |-> getState(c).ret.value]

\* C14: a write to an object init() or getState() returned (an assignment to
\* a top-level field, a push to or removal from one of its arrays) changes
\* nothing hasDiscovery, discoveryCount or a later getState() report.
C14_SnapshotIsolated ==
    [][(Called("push") \/ Called("pop") \/ Called("assign"))
       => Observe([Config EXCEPT !.state = state']) = Observe(Config)]_vars

(***************************************************************************)
(* Persistence (SpecDurable, Spec).                                        *)
(***************************************************************************)
MutatingOps ==
    {"init", "addDiscovery", "addConstellation", "addGameComplete",
     "addTerminalCommand", "clickStar", "toggleAudio", "incrementLoop",
     "resetState"}

\* C15: with storage available, when a mutating operation returns and
\* whenever the store invokes a handler, the item under the key is the
\* serialization of the whole in-memory state as it then is.
C15_PersistedBeforeEmit ==
    /\ lastOp.op \in MutatingOps
           => /\ storage = <<JSONstringify(state)>>
              /\ DOMAIN storage[1].doc = SchemaFields
    /\ \A k \in Where(trace, "invoke") : trace[k].synced

\* a handler run by addConstellation's nested addDiscovery recorded a
\* further discovery; the item holds all of it
C15_Witness ==
    /\ lastOp.op = "addConstellation"
    /\ Where(trace, "invoke") # {}
    /\ Cardinality(Where(trace, "save")) >= 3
    /\ storage # NoItem
    /\ storage[1].doc.discoveries.value =
           <<"constellation:orion", "terminal:opened">>
    /\ storage[1].doc.constellations.value = <<"orion">>

\* the events a trace emitted, in order
Events(t) ==
    LET es == SelectSeq(t, LAMBDA e : e.kind = "emit")
    IN [i \in 1..Len(es) |-> [event |-> es[i].event, detail |-> es[i].detail]]

\* what a caller and the subscribers see of an operation that ended in c
Outcome(c) ==
    [ret |-> c.ret, threw |-> c.exc, state |-> c.state,
     events |-> Events(c.trace)]

Working == [Config EXCEPT !.storageOK = TRUE]
Failing == [Config EXCEPT !.storageOK = FALSE]

\* the operation ends the same way with failing storage as with working
\* storage, and without an exception
Degrades(w, f) == ~f.exc /\ Outcome(f) = Outcome(w)

OthersDegrade ==
    /\ \A a \in DiscoveryCalls :
          Degrades(addDiscovery(Working, a.id, a.category, a.label),
                   addDiscovery(Failing, a.id, a.category, a.label))
    /\ \A a \in ConstellationCalls :
          Degrades(addConstellation(Working, a.name, a.stars),
                   addConstellation(Failing, a.name, a.stars))
    /\ \A a \in GameCalls :
          Degrades(addGameComplete(Working, a.gameId, a.score),
                   addGameComplete(Failing, a.gameId, a.score))
    /\ \A a \in TerminalCalls :
          Degrades(addTerminalCommand(Working, a.command, a.output),
                   addTerminalCommand(Failing, a.command, a.output))
    /\ Degrades(clickStar(Working), clickStar(Failing))
    /\ Degrades(toggleAudio(Working), toggleAudio(Failing))
    /\ Degrades(incrementLoop(Working), incrementLoop(Failing))
    /\ Degrades(resetState(Working), resetState(Failing))

\* C16: from every state, each store operation run while storage reads and
\* writes throw returns what it returns with working storage, leaves the
\* same in-memory state, emits the same events in the same order, and
\* throws nothing.
C16_SameAsWorkingStorage ==
    /\ Degrades(init(Working), init(Failing))
    /\ OthersDegrade

(***************************************************************************)
(* Migration (SpecMigrate).                                                *)
(***************************************************************************)
\* C17: migrate of a version-0 record (no version field) copies
\* discoveries when it is an array, visitCount when it is a number and
\* firstVisitDate when it is a string, sets version to 1, and gives every
\* other field its default; {discoveries: ["a"]} alone gives the default
\* state with discoveries = ["a"].
C17_MigrateVersion0 ==
    (mig.calls >= 1 /\ "version" \notin DOMAIN mig.raw)
        => LET r == mig.raw
               m == mig.once
               now == toISOString(mig.at)
           IN /\ DOMAIN m = SchemaFields
              /\ m.version = 1
              /\ m.discoveries =
                     IF Field(r, "discoveries").type = "array"
                     THEN r.discoveries.value ELSE <<>>
              /\ m.visitCount =
                     IF Field(r, "visitCount").type = "number"
                     THEN r.visitCount.value ELSE 0
              /\ m.firstVisitDate =
                     IF Field(r, "firstVisitDate").type = "string"
                     THEN r.firstVisitDate.value ELSE now
              /\ m.constellations = <<>>
              /\ m.gamesCompleted = <<>>
              /\ m.terminalCommands = <<>>
              /\ m.lastVisitDate = now
              /\ m.sessionStart = mig.at
              /\ m.loopCount = 0
              /\ m.audioEnabled = FALSE
              /\ m.totalClickedStars = 0
              /\ (DOMAIN r = {"discoveries"}
                  /\ r.discoveries.type = "array"
                  /\ r.discoveries.value = <<"a">>)
                     => /\ m.discoveries = <<"a">>
                        /\ m.visitCount = 0
                        /\ m.firstVisitDate = now

\* {discoveries: ["a"]} migrated at a later clock reading
C17_Witness ==
    /\ mig.calls >= 1
    /\ DOMAIN mig.raw = {"discoveries"}
    /\ mig.raw.discoveries.type = "array"
    /\ mig.at = 1
    /\ mig.once.discoveries = <<"a">>
    /\ mig.once.version = 1
    /\ mig.once.firstVisitDate = toISOString(1)

UnknownVersion(item) ==
    /\ item # NoItem
    /\ item[1].syntax = "json"
    /\ ~(/\ Field(item[1].doc, "version").type = "number"
         /\ Field(item[1].doc, "version").value = SCHEMA_VERSION)

\* C19: init() over a record of unknown version carries the record's
\* discoveries (an array), visitCount (a number, which init then increments)
\* and firstVisitDate (a string) into the state.
C19_UnknownVersionMigrates ==
    [][(Called("init") /\ UnknownVersion(storage))
       => LET r == storage[1].doc
          IN /\ Field(r, "discoveries").type = "array"
                    => state'.discoveries = r.discoveries.value
             /\ Field(r, "visitCount").type = "number"
                    => state'.visitCount = r.visitCount.value + 1
             /\ Field(r, "firstVisitDate").type = "string"
                    => state'.firstVisitDate = r.firstVisitDate.value]_vars

\* C20: after init(), whatever parsable item the key held, the state has
\* version = SCHEMA_VERSION and all twelve fields of the schema, and no
\* later store operation throws.
C20_LoadedStateMatchesSchema ==
    /\ lastOp.op = "init"
           => /\ DOMAIN state = SchemaFields
              /\ state.version = SCHEMA_VERSION
    /\ ~thrown

(***************************************************************************)
(* Loading over a missing or unreadable item (SpecLoad).                   *)
(***************************************************************************)
\* C21: init() over an absent or unparsable item does not throw, leaves a
\* state with every schema field, visitCount 1 and empty discoveries,
\* constellations, gamesCompleted and terminalCommands, and emits one visit
\* event, whose isFirstVisit is true.
C21_InitOverNothing ==
    [][(Called("init") /\ lastOp'.item \in {"absent", "unparsable"})
       => LET own == OwnEmits(trace')
          IN /\ ~thrown'
             /\ DOMAIN state' = SchemaFields
             /\ state'.visitCount = 1
             /\ \A f \in ArrayFields : state'[f] = <<>>
             /\ [state' EXCEPT !.visitCount = 0]
                    = [createDefaultState EXCEPT
                         !.lastVisitDate = toISOString(clock),
                         !.firstVisitDate = toISOString(clock),
                         !.sessionStart = clock]
             /\ Len(own) = 1
             /\ own[1].event = EvVisit
             /\ own[1].detail = [count |-> 1, isFirstVisit |-> TRUE]]_vars

C21_Witness ==
    /\ lastOp.op = "init"
    /\ lastOp.item = "unparsable"
    /\ state.visitCount = 1
    /\ OwnEmits(trace)[1].detail.isFirstVisit

(***************************************************************************)
(* Cascades and milestone fields (Spec, SpecDurable).                      *)
(***************************************************************************)
\* C22: as long as resetState() is not called, at most one discovery event
\* is emitted per discovery id, however often addDiscovery or a milestone
\* operation is repeated, and no id is in discoveries twice.
C22_OneDiscoveryEventPerId ==
    /\ NoDuplicates(announced)
    /\ NoDuplicates(Discoveries(state))

\* the entries a and b have in common are in the same order in both
KeepsOrder(a, b) ==
    \A i, j \in 1..Len(a) :
        \A k, l \in 1..Len(b) :
            (i < j /\ a[i] = b[k] /\ a[j] = b[l]) => k < l

\* C23: discoveries, constellations, gamesCompleted and terminalCommands
\* never hold an entry twice; an operation other than init and resetState
\* only appends to them, and no operation changes the order of entries
\* that stay.
C23_NoDuplicatesInOrder ==
    [][\A f \in ArrayFields :
          /\ NoDuplicates(state'[f])
          /\ KeepsOrder(state[f], state'[f])
          /\ lastOp'.op \notin {"init", "resetState"}
                => IsPrefix(state[f], state'[f])]_vars

C23_Witness ==
    /\ lastOp = Op("addTerminalCommand", "help", 0)
    /\ state.terminalCommands = <<"help", "stars">>
    /\ Len(state.discoveries) >= 2

(***************************************************************************)
(* Unlock and hint together, and the node set (SpecGraph).                 *)
(***************************************************************************)
\* C24: for one discoveries array, a node that is not in it and for which
\* isUnlocked answers true is among the nodes getHintableNodes returns.
C24_UnlockedIsHintable ==
    (/\ qUnlocked.discoveries = qHintable.discoveries
     /\ qUnlocked.result
     /\ ~Includes(qUnlocked.discoveries, qUnlocked.nodeId))
        => Includes(qHintable.result, qUnlocked.nodeId)

\* B is unlocked and hintable; C is hintable and not unlocked
C24_Witness ==
    /\ graph = abcGraph
    /\ qUnlocked = [nodeId |-> "B", discoveries |-> <<"A">>, result |-> TRUE]
    /\ qHintable = [discoveries |-> <<"A">>, result |-> <<"B", "C">>]
    /\ ~isUnlocked(graph, "C", <<"A">>)

(***************************************************************************)
(* Order of persistence, domain event and cascade (SpecDurable).           *)
(***************************************************************************)
\* the event a recording operation emits for itself
DomainEvent(op) ==
    CASE op = "addConstellation" -> EvConstellation
      [] op = "addGameComplete" -> EvGameComplete
      [] op = "addTerminalCommand" -> EvTerminal
      [] op = "incrementLoop" -> EvLoopReset
      [] OTHER -> ""

\* C25: addConstellation, addGameComplete, addTerminalCommand and
\* incrementLoop emit their own event after a write of the state and before
\* the discovery and state-change events of the discovery they cascade
\* into.
C25_DomainEventBeforeCascade ==
    [][\A op \in {"addConstellation", "addGameComplete",
                  "addTerminalCommand", "incrementLoop"} :
          Called(op)
             => LET t == trace'
                    own == {i \in Where(t, "emit") : t[i].depth = 0}
                IN \A d \in own :
                      t[d].event = DomainEvent(op)
                         => /\ \E i \in Where(t, "save") :
                                  i < d /\ t[i].detail.ok
                            /\ \A i \in own :
                                  t[i].event \in {EvDiscovery, EvStateChange}
                                     => d < i]_vars

(***************************************************************************)
(* Milestone fields and discoveries (Spec, SpecQuota).                     *)
(***************************************************************************)
\* every milestone recorded in s has its discovery id in s.discoveries
Resolvable(s) ==
    /\ \A i \in 1..Len(s.constellations) :
          Includes(s.discoveries, ConstellationId(s.constellations[i]))
    /\ \A i \in 1..Len(s.gamesCompleted) :
          Includes(s.discoveries, GameId(s.gamesCompleted[i]))
    /\ s.totalClickedStars >= 1 => Includes(s.discoveries, "star:first-click")
    /\ s.loopCount >= 1 => Includes(s.discoveries, "loop:first-reset")
    /\ s.terminalCommands # <<>>
          => Includes(s.discoveries, "terminal:first-command")

\* C26: between operations, every name in constellations, every id in
\* gamesCompleted, a positive totalClickedStars, a positive loopCount and a
\* non-empty terminalCommands have their discovery id in discoveries, also
\* after init() calls that follow failed storage writes.
C26_MilestonesResolvable == Resolvable(state)

(***************************************************************************)
(* The node set (SpecGraph).                                               *)
(***************************************************************************)
\* the ids reached from the ids in S along requires in at most n steps
RECURSIVE RequiresClosure(_, _, _)
RequiresClosure(g, S, n) ==
    IF n = 0 THEN S
    ELSE RequiresClosure(g, S \cup UNION {RequiresOf(g, x) : x \in S}, n - 1)

\* every id the node id requires, directly or through other nodes
Prerequisites(g, id) == RequiresClosure(g, RequiresOf(g, id), Len(g))

\* C27: node ids are unique, every id in a requires list is the id of a
\* node, and no node is among its own direct or indirect prerequisites.
C27_GraphWellFormed ==
    /\ \A i, j \in 1..Len(graph) : graph[i].id = graph[j].id => i = j
    /\ \A i \in 1..Len(graph) :
          Range(graph[i].requires) \subseteq NodeIds(graph)
    /\ \A id \in NodeIds(graph) : id \notin Prerequisites(graph, id)

\* the site's graph, in which game:deep-complete reaches star:first-click
\* through meta:deep-game
C27_Witness ==
    /\ graph = graphData
    /\ Prerequisites(graph, "game:deep-complete")
          = {"meta:deep-game", "star:first-click", "terminal:first-command",
             "game:star-catcher"}
    /\ qUnlocked.nodeId = "game:deep-complete"

(***************************************************************************)
(* Discoveries and the graph's prerequisites (SpecDurable).                *)
(***************************************************************************)
\* C28: every id in discoveries that is a node of the site's graph has all
\* the ids of its requires in discoveries.
C28_DiscoveredAfterUnlocked ==
    \A id \in Range(state.discoveries) \cap NodeIds(graphData) :
        RequiresOf(graphData, id) \subseteq Range(state.discoveries)

(***************************************************************************)
(* The loop timer (SpecLoop).                                              *)
(***************************************************************************)
\* C29: when a period elapses the callback is invoked at most once, also
\* after startLoopTimer was called twice in a row; while the timer is
\* stopped no callback is invoked and no interval is scheduled.
C29_OneActiveSchedule ==
    /\ loop.calls <= 1
    /\ loop.timerId = NoTimer => (loop.calls = 0 /\ loop.scheduled = {})

(***************************************************************************)
(* The deep game portal (SpecGame).                                        *)
(***************************************************************************)
\* C30: whenever launchGame has set isLoading, the component later has
\* isLoading = false again.
C30_LaunchLeavesLoading == game.isLoading ~> ~game.isLoading

====
